---- MODULE Spec2Model ----
(***************************************************************************)
(* Gesture-driven Christmas tree: the hand tracker (gesture classifier and *)
(* 5-frame majority smoother, hand-tracking module) and the scene state    *)
(* machine with its morph engine and orbit selector (christmas-tree/       *)
(* main.js).                                                               *)
(*                                                                         *)
(* Numbers.  morphProgress is a JavaScript double in [0,1].  It is kept    *)
(* here as an integer in units of 0.02, the coarsest grid that holds every *)
(* value 1 - 0.06*a + 0.06*b exactly: transitionSpeed 0.06 is 3 units and  *)
(* the threshold 0.5 is 25 units.  A sprite's opacity is kept in tenths    *)
(* (OpacityUnit = 5 units of morphProgress): the threshold 0.3 is 3, the   *)
(* target opacity is explodeProgress rounded down to a tenth, and          *)
(* lerp(a, b, 0.1) moves a by a tenth of its distance to b, rounded up to  *)
(* a whole step of the grid, so that it approaches b from tick to tick     *)
(* without ever jumping to it or past it.                                  *)
(*                                                                         *)
(* Rotation.  treeRotation follows the hand position, the arrow keys and   *)
(* the auto-rotation, none of which the scene state machine reads.  The    *)
(* orbit selector reads it only to find the sprite with the greatest z;    *)
(* the sprites' base angles being distinct, every loaded sprite is that    *)
(* sprite for some rotation, so a tick takes the sprite in front as its    *)
(* input.  A sprite is known by its position in imageSprites.              *)
(***************************************************************************)
EXTENDS Integers, Sequences, FiniteSets

VARIABLES
    handLandmarks,      \* HandTracker.landmarks: <<frame>> of the last result, <<>> for null
    gestureHistory,     \* HandTracker.gestureHistory
    currentGesture,     \* HandTracker.currentGesture: the last smoothed label
    frameLog,           \* history variable: labels of all frames delivered
    eventLog,           \* history variable: labels passed to onGestureChange
    controls,           \* which control surface init() ended up wiring
    currentState,       \* 'tree' | 'exploded' | 'zoomed'
    previousState,      \* state before zooming
    morphProgress,      \* 0 = exploded .. MorphOne = tree
    zoomedSprite,       \* index in imageSprites of the zoomed sprite, or NoSprite
    overlayHidden,      \* #zoom-overlay carries the class 'hidden'
    selectedImageIndex, \* index into imageSprites
    imageSprites,       \* loaded sprites, in load order
    stateBeforeZoom,    \* history variable: while zoomed, currentState just before the zoom
    everOpened,         \* history variable: an 'open' event or an O keydown was handled
    everPastHalf,       \* history variable: a tick has left morphProgress below 0.5
    last                \* history variable: the handler that ran last

vars == <<handLandmarks, gestureHistory, currentGesture, frameLog, eventLog, controls,
          currentState, previousState, morphProgress, zoomedSprite,
          overlayHidden, selectedImageIndex, imageSprites,
          stateBeforeZoom, everOpened, everPastHalf, last>>

trackerVars == <<handLandmarks, gestureHistory, currentGesture, frameLog, eventLog>>

sceneVars == <<currentState, previousState, morphProgress, zoomedSprite,
               overlayHidden, selectedImageIndex, imageSprites>>

(***************************************************************************)
(* Bounds of the model.                                                    *)
(***************************************************************************)
\* frames delivered to the tracker in the tracker specification
MaxFrames == 6
\* textures whose load callback runs (a texture may also never load)
MaxLoaded == 1

(***************************************************************************)
(* Program constants.                                                      *)
(***************************************************************************)
historySize == 5
\* 1.0 in units of 0.02
MorphOne == 50
\* CONFIG.transitionSpeed = 0.06
transitionSpeed == 3
\* SAMPLE_IMAGES.length
imageCount == 6
\* one tenth of opacity in units of morphProgress
OpacityUnit == 5
\* opacity threshold 0.3 of the two zoom functions, in tenths
ZoomOpacity == 3
\* explodeProgress threshold 0.5 of the target opacity
HalfExploded == 25
\* lerp factor 0.1 of the opacity low-pass, as a divisor
OpacityEase == 10
\* isTouching: distance < 0.08, in units of 0.01
TouchDistance == 8
\* zoomedSprite = null
NoSprite == -1

GestureLabels == {"none", "fist", "open", "ok"}
DisplayStates == {"tree", "exploded", "zoomed"}

Range(s) == {s[i] : i \in DOMAIN s}

Min(a, b) == IF a < b THEN a ELSE b
Max(a, b) == IF a > b THEN a ELSE b

(***************************************************************************)
(* GestureClassifier: HandTracker.detectGesture.  A landmark frame is a    *)
(* function from landmark index to a point [x, y] in units of 0.01.        *)
(***************************************************************************)
NoHand == "nohand"

\* landmarks[4].x < landmarks[3].x, then tip.y < pip.y for the four fingers
getFingersExtended(landmarks) ==
    << landmarks[4].x < landmarks[3].x,
       landmarks[8].y < landmarks[6].y,
       landmarks[12].y < landmarks[10].y,
       landmarks[16].y < landmarks[14].y,
       landmarks[20].y < landmarks[18].y >>

\* sqrt(dx^2 + dy^2) < 0.08, compared on the squares
isTouching(landmarks) ==
    LET dx == landmarks[4].x - landmarks[8].x
        dy == landmarks[4].y - landmarks[8].y
    IN  dx * dx + dy * dy < TouchDistance * TouchDistance

isOKGesture(landmarks, fingersExtended) ==
    /\ isTouching(landmarks)
    /\ fingersExtended[3] /\ fingersExtended[4] /\ fingersExtended[5]

extendedCount(fingersExtended) ==
    Cardinality({i \in DOMAIN fingersExtended : fingersExtended[i]})

\* a classifier that counts the fingers before it looks for the OK gesture
detectGestureCountFirst(landmarks) ==
    LET fingersExtended == getFingersExtended(landmarks)
    IN  IF extendedCount(fingersExtended) <= 1 THEN "fist"
        ELSE IF extendedCount(fingersExtended) >= 4 THEN "open"
        ELSE IF isOKGesture(landmarks, fingersExtended) THEN "ok"
        ELSE "none"

\* a classifier that takes three extended fingers for an open hand
detectGestureOpenAtThree(landmarks) ==
    LET fingersExtended == getFingersExtended(landmarks)
    IN  IF isOKGesture(landmarks, fingersExtended) THEN "ok"
        ELSE IF extendedCount(fingersExtended) <= 1 THEN "fist"
        ELSE IF extendedCount(fingersExtended) >= 3 THEN "open"
        ELSE "none"

\* HandTracker.detectGesture
detectGesture(landmarks) ==
    LET fingersExtended == getFingersExtended(landmarks)
    IN  IF isOKGesture(landmarks, fingersExtended) THEN "ok"
        ELSE IF extendedCount(fingersExtended) <= 1 THEN "fist"
        ELSE IF extendedCount(fingersExtended) >= 4 THEN "open"
        ELSE "none"

\* the landmarks the classifier reads: thumb IP/tip, and PIP/tip of the others
Landmark(px, py) == [x |-> px, y |-> py]

\* index tip at (40, 45); thumb tip at height 45; the three other PIP joints at 50
Hand(thumbTipX, thumbIPx, indexPIPy, tips) ==
    [i \in {3, 4, 6, 8, 10, 12, 14, 16, 18, 20} |->
        CASE i = 3  -> Landmark(thumbIPx, 50)
          [] i = 4  -> Landmark(thumbTipX, 45)
          [] i = 6  -> Landmark(40, indexPIPy)
          [] i = 8  -> Landmark(40, 45)
          [] i = 12 -> Landmark(50, tips[1])
          [] i = 16 -> Landmark(60, tips[2])
          [] i = 20 -> Landmark(70, tips[3])
          [] OTHER  -> Landmark(50, 50)]

\* tip heights above (40) and below (60) the PIP joints at y = 50
TipHeights == {40, 60}

\* thumb tip 0.00 or exactly 0.08 away from the index tip; thumb and index
\* each extended or not, independently of the distance
LandmarkFrames ==
    { Hand(tx, ipx, ipy, <<m, r, p>>) :
        tx \in {40, 48}, ipx \in {35, 55}, ipy \in {40, 50},
        m \in TipHeights, r \in TipHeights, p \in TipHeights }

\* one frame for each label: a fist, an open hand, the OK sign, two fingers up
PoseFrames ==
    { Hand(48, 35, 40, <<60, 60, 60>>),
      Hand(48, 55, 50, <<40, 40, 40>>),
      Hand(40, 35, 40, <<40, 40, 40>>),
      Hand(48, 55, 50, <<60, 60, 60>>) }

(***************************************************************************)
(* GestureSmoother: HandTracker.updateGesture.                             *)
(***************************************************************************)
\* push, then shift while longer than historySize
pushHistoryKeepOldest(history, gesture) ==
    IF Len(history) + 1 > historySize THEN history
    ELSE Append(history, gesture)

\* a history that is shifted one entry too early
pushHistoryShiftsEarly(history, gesture) ==
    LET pushed == Append(history, gesture)
    IN  IF Len(pushed) >= historySize THEN Tail(pushed) ELSE pushed

pushHistory(history, gesture) ==
    LET pushed == Append(history, gesture)
    IN  IF Len(pushed) > historySize THEN Tail(pushed) ELSE pushed

\* gestureCounts[g] = (gestureCounts[g] || 0) + 1
gestureCounts(history) ==
    [g \in Range(history) |-> Cardinality({i \in DOMAIN history : history[i] = g})]

\* Object.entries order: string keys in order of insertion, i.e. of first occurrence
RECURSIVE entryKeys(_, _, _)
entryKeys(history, i, acc) ==
    IF i > Len(history) THEN acc
    ELSE IF history[i] \in Range(acc) THEN entryKeys(history, i + 1, acc)
    ELSE entryKeys(history, i + 1, Append(acc, history[i]))

\* for (const [g, count] of entries) if (count > maxCount) { ... }
RECURSIVE scanEntries(_, _, _, _, _)
scanEntries(counts, keys, i, maxCount, smoothed) ==
    IF i > Len(keys) THEN smoothed
    ELSE IF counts[keys[i]] > maxCount
         THEN scanEntries(counts, keys, i + 1, counts[keys[i]], keys[i])
         ELSE scanEntries(counts, keys, i + 1, maxCount, smoothed)

\* a smoother that only accepts a strict majority of a full-size window
smoothedGestureStrict(history) ==
    LET counts == gestureCounts(history)
        winners == {g \in DOMAIN counts : 2 * counts[g] > historySize}
    IN  IF winners = {} THEN "none" ELSE CHOOSE g \in winners : TRUE

\* a smoother whose scan lets a later entry with an equal count win
smoothedGestureLastWins(history) ==
    LET counts == gestureCounts(history)
        keys == entryKeys(history, 1, <<>>)
        best == {i \in DOMAIN keys :
                    \A j \in DOMAIN keys : counts[keys[j]] <= counts[keys[i]]}
    IN  IF keys = <<>> THEN "none"
        ELSE keys[CHOOSE i \in best : \A j \in best : j <= i]

\* no smoothing at all: the label of the newest frame
smoothedGestureNewest(history) ==
    IF history = <<>> THEN "none" ELSE history[Len(history)]

smoothedGesture(history) ==
    scanEntries(gestureCounts(history), entryKeys(history, 1, <<>>), 1, 0, "none")

\* if (smoothedGesture !== this.currentGesture)
emitsAlways(smoothed, current) == TRUE

emits(smoothed, current) == smoothed # current

(***************************************************************************)
(* SceneStateMachine: the part of the scene the gesture, keyboard and      *)
(* click handlers write, as a record the handlers map to a new record.     *)
(***************************************************************************)
Scene ==
    [currentState |-> currentState, previousState |-> previousState,
     zoomedSprite |-> zoomedSprite, overlayHidden |-> overlayHidden,
     selectedImageIndex |-> selectedImageIndex]

\* an unzoom that hides the overlay and forgets to clear the sprite
unzoomImageKeepsSprite(s) == [s EXCEPT !.overlayHidden = TRUE]

unzoomImage(s) == [s EXCEPT !.overlayHidden = TRUE, !.zoomedSprite = NoSprite]

\* positions (1-based) of the sprites whose userData.isSelected is set
selectedPositions(sprites) == {i \in DOMAIN sprites : sprites[i].isSelected}

\* the forEach keeps the last selected sprite; else imageSprites[selectedImageIndex]
\* (position 0 stands for "no bestImage")
bestImagePosition(sprites, selected) ==
    IF selectedPositions(sprites) # {}
    THEN CHOOSE i \in selectedPositions(sprites) :
            \A j \in selectedPositions(sprites) : j <= i
    ELSE IF selected >= 0 /\ selected < Len(sprites) THEN selected + 1
    ELSE 0

\* a zoom that does not save the state it was entered from
zoomToNearestImageNoSave(s, sprites) ==
    LET best == bestImagePosition(sprites, s.selectedImageIndex)
    IN  IF Len(sprites) = 0 \/ s.currentState = "zoomed" THEN s
        ELSE IF best # 0 /\ sprites[best].opacity > ZoomOpacity
        THEN [s EXCEPT !.currentState = "zoomed",
                       !.zoomedSprite = best - 1,
                       !.overlayHidden = FALSE]
        ELSE s

zoomToNearestImage(s, sprites) ==
    LET best == bestImagePosition(sprites, s.selectedImageIndex)
    IN  IF Len(sprites) = 0 THEN s
        ELSE IF s.currentState = "zoomed" THEN s
        ELSE IF best # 0 /\ sprites[best].opacity > ZoomOpacity
        THEN [s EXCEPT !.previousState = s.currentState,
                       !.currentState = "zoomed",
                       !.zoomedSprite = best - 1,
                       !.overlayHidden = FALSE]
        ELSE s

\* a keyboard zoom without the early return for the state 'zoomed'
zoomSelectedImageWhileZoomed(s, sprites) ==
    LET selected == s.selectedImageIndex
    IN  IF Len(sprites) = 0 THEN s
        ELSE IF selected < 0 \/ selected >= Len(sprites) THEN s
        ELSE IF sprites[selected + 1].opacity < ZoomOpacity THEN s
        ELSE [s EXCEPT !.previousState = s.currentState,
                       !.currentState = "zoomed",
                       !.zoomedSprite = selected,
                       !.overlayHidden = FALSE]

zoomSelectedImage(s, sprites) ==
    LET selected == s.selectedImageIndex
    IN  IF Len(sprites) = 0 THEN s
        ELSE IF s.currentState = "zoomed" THEN s
        ELSE IF selected < 0 \/ selected >= Len(sprites) THEN s
        ELSE IF sprites[selected + 1].opacity < ZoomOpacity THEN s
        ELSE [s EXCEPT !.previousState = s.currentState,
                       !.currentState = "zoomed",
                       !.zoomedSprite = selected,
                       !.overlayHidden = FALSE]

\* case 'fist', resetting previousState along with the state
gestureFistResetsPrevious(s) ==
    [(IF s.currentState = "zoomed" THEN unzoomImage(s) ELSE s)
        EXCEPT !.currentState = "tree", !.previousState = "tree"]

\* case 'fist'
gestureFist(s) ==
    [(IF s.currentState = "zoomed" THEN unzoomImage(s) ELSE s)
        EXCEPT !.currentState = "tree"]

\* case 'open', forgetting previousState
gestureOpenKeepsPrevious(s) ==
    [(IF s.currentState = "zoomed" THEN unzoomImage(s) ELSE s)
        EXCEPT !.currentState = "exploded"]

\* case 'open'
gestureOpen(s) ==
    [(IF s.currentState = "zoomed" THEN unzoomImage(s) ELSE s)
        EXCEPT !.currentState = "exploded", !.previousState = "exploded"]

\* case 'ok' without its test of the two state variables
gestureOkUnguarded(s, sprites) ==
    zoomToNearestImage(s, sprites)

\* case 'ok'
gestureOk(s, sprites) ==
    IF s.currentState = "exploded" \/ s.previousState = "exploded"
    THEN zoomToNearestImage(s, sprites)
    ELSE s

\* case 'none', always falling back to the exploded state
gestureNoneExplodes(s) ==
    IF s.currentState = "zoomed"
    THEN [unzoomImage(s) EXCEPT !.currentState = "exploded"]
    ELSE s

\* case 'none'
gestureNone(s) ==
    IF s.currentState = "zoomed"
    THEN [unzoomImage(s) EXCEPT !.currentState = s.previousState]
    ELSE s

handleGestureChange(s, gesture, sprites) ==
    CASE gesture = "fist" -> gestureFist(s)
      [] gesture = "open" -> gestureOpen(s)
      [] gesture = "ok"   -> gestureOk(s, sprites)
      [] gesture = "none" -> gestureNone(s)
      [] OTHER -> s

Keys == {"f", "o", "z", "arrowleft", "arrowright"}

\* case 'arrowleft': select the previous image (outside 'exploded' the key
\* turns the tree)
keyArrowLeft(s) ==
    IF s.currentState = "exploded"
    THEN [s EXCEPT !.selectedImageIndex = Max(0, s.selectedImageIndex - 1)]
    ELSE s

\* case 'arrowright', clamping at the number of images
keyArrowRightClampsAtCount(s) ==
    IF s.currentState = "exploded"
    THEN [s EXCEPT !.selectedImageIndex = Min(imageCount, s.selectedImageIndex + 1)]
    ELSE s

\* case 'arrowright': select the next image
keyArrowRight(s) ==
    IF s.currentState = "exploded"
    THEN [s EXCEPT !.selectedImageIndex =
                      Min(imageCount - 1, s.selectedImageIndex + 1)]
    ELSE s

\* document keydown listener of setupKeyboardControls
onKeyDown(s, key, sprites) ==
    CASE key = "f" ->
            [(IF s.currentState = "zoomed" THEN unzoomImage(s) ELSE s)
                EXCEPT !.currentState = "tree"]
      [] key = "o" ->
            [(IF s.currentState = "zoomed" THEN unzoomImage(s) ELSE s)
                EXCEPT !.currentState = "exploded", !.previousState = "exploded"]
      [] key = "z" ->
            IF s.currentState = "exploded" \/ s.previousState = "exploded"
            THEN zoomSelectedImage(s, sprites)
            ELSE s
      [] key = "arrowleft" -> keyArrowLeft(s)
      [] key = "arrowright" -> keyArrowRight(s)
      [] OTHER -> s

\* document keyup listener of setupKeyboardControls
onKeyUp(s, key) ==
    IF key = "z" /\ s.currentState = "zoomed"
    THEN [unzoomImage(s) EXCEPT !.currentState = s.previousState]
    ELSE s

\* a click handler that hides the overlay and leaves the state alone
onCloseZoomClickHidesOnly(s) == [s EXCEPT !.overlayHidden = TRUE]

\* a click handler that restores the saved state, as the 'none' event does
onCloseZoomClickRestores(s) ==
    [s EXCEPT !.overlayHidden = TRUE, !.currentState = s.previousState]

\* click on #close-zoom, or on the background of #zoom-overlay
onCloseZoomClick(s) ==
    [s EXCEPT !.overlayHidden = TRUE, !.currentState = "exploded"]

(***************************************************************************)
(* MorphEngine and OrbitSelector: the render tick, animate().              *)
(***************************************************************************)
\* the morph step without Math.min / Math.max
advanceMorphUnclamped(state, progress) ==
    IF state = "tree" THEN progress + transitionSpeed
    ELSE IF state = "exploded" THEN progress - transitionSpeed
    ELSE progress

\* a morph step that treats 'zoomed' like 'exploded'
advanceMorphWhileZoomed(state, progress) ==
    IF state = "tree" THEN Min(MorphOne, progress + transitionSpeed)
    ELSE Max(0, progress - transitionSpeed)

\* a morph step that stops short instead of clamping
advanceMorphStopsShort(state, progress) ==
    IF state = "tree"
    THEN (IF progress + transitionSpeed > MorphOne THEN progress
          ELSE progress + transitionSpeed)
    ELSE IF state = "exploded"
    THEN (IF progress - transitionSpeed < 0 THEN progress
          ELSE progress - transitionSpeed)
    ELSE progress

\* a morph step that jumps to the end of the transition
advanceMorphSnaps(state, progress) ==
    IF state = "tree" THEN MorphOne
    ELSE IF state = "exploded" THEN 0
    ELSE progress

\* animate(): the morph step
advanceMorph(state, progress) ==
    IF state = "tree" THEN Min(MorphOne, progress + transitionSpeed)
    ELSE IF state = "exploded" THEN Max(0, progress - transitionSpeed)
    ELSE progress

\* first pass of updateImageVisibility: frontImageIndex stays 0 unless the
\* state is 'exploded' and a sprite is loaded; facing is the position of
\* the first sprite with the greatest z under the current treeRotation
frontImageIndex(sprites, facing, state) ==
    IF state # "exploded" \/ Len(sprites) = 0 THEN 0
    ELSE facing - 1

\* a target opacity that follows explodeProgress from the start
targetOpacityNoThreshold(explodeProgress) ==
    explodeProgress \div OpacityUnit

\* explodeProgress > 0.5 ? explodeProgress : 0, in tenths
targetOpacity(explodeProgress) ==
    IF explodeProgress > HalfExploded THEN explodeProgress \div OpacityUnit ELSE 0

\* a low-pass that jumps to its target at once
lerpEaseAtOnce(a, b) == b

\* lerp(a, b, 0.1) on the grid of tenths
lerpEase(a, b) ==
    IF b > a THEN a + Max(1, (b - a) \div OpacityEase)
    ELSE IF b < a THEN a - Max(1, (a - b) \div OpacityEase)
    ELSE a

\* second pass of updateImageVisibility, comparing the selection with the
\* one-based position of the sprite
updateSpritesOneBased(sprites, selected, state, progress) ==
    [i \in DOMAIN sprites |->
        [opacity |-> lerpEase(sprites[i].opacity, targetOpacity(MorphOne - progress)),
         isSelected |-> (i = selected /\ state = "exploded")]]

\* second pass of updateImageVisibility
updateSprites(sprites, selected, state, progress) ==
    [i \in DOMAIN sprites |->
        [opacity |-> lerpEase(sprites[i].opacity, targetOpacity(MorphOne - progress)),
         isSelected |-> (i - 1 = selected /\ state = "exploded")]]

(***************************************************************************)
(* State after the script has run and init() has returned: the scene is    *)
(* set up, the render loop is started, the textures are still loading and  *)
(* setupHandTracking() is pending.  The zoom overlay starts hidden.        *)
(***************************************************************************)
Init ==
    /\ handLandmarks = <<>>
    /\ gestureHistory = <<>>
    /\ currentGesture = "none"
    /\ frameLog = <<>>
    /\ eventLog = <<>>
    /\ controls = "pending"
    /\ currentState = "tree"
    /\ previousState = "tree"
    /\ morphProgress = MorphOne
    /\ zoomedSprite = NoSprite
    /\ overlayHidden = TRUE
    /\ selectedImageIndex = 0
    /\ imageSprites = <<>>
    /\ stateBeforeZoom = ""
    /\ everOpened = FALSE
    /\ everPastHalf = FALSE
    /\ last = [op |-> "init", arg |-> "", from |-> ""]

\* a handler's result written back to the globals
SetScene(s) ==
    /\ currentState' = s.currentState
    /\ previousState' = s.previousState
    /\ zoomedSprite' = s.zoomedSprite
    /\ overlayHidden' = s.overlayHidden
    /\ selectedImageIndex' = s.selectedImageIndex
    /\ stateBeforeZoom' =
          IF s.currentState # "zoomed" THEN ""
          ELSE IF currentState # "zoomed" THEN currentState
          ELSE stateBeforeZoom

\* HandTracker.init rejects when camera.start() rejects or when a constructor
\* of the detector library throws
InitFailures == {"camera", "library"}

(***************************************************************************)
(* setupHandTracking(): the three ways it ends.                            *)
(***************************************************************************)
\* handTracker.init resolves and onGestureChange is wired
HandTrackingReady ==
    /\ controls = "pending"
    /\ controls' = "gesture"
    /\ last' = [op |-> "ready", arg |-> "", from |-> ""]
    /\ UNCHANGED <<trackerVars, sceneVars, stateBeforeZoom, everOpened, everPastHalf>>

\* handTracker.init rejects; the catch of setupHandTracking swallows the error
HandTrackingFailed ==
    /\ controls = "pending"
    /\ controls' = "none"
    /\ \E cause \in InitFailures : last' = [op |-> "failed", arg |-> cause, from |-> ""]
    /\ UNCHANGED <<trackerVars, sceneVars, stateBeforeZoom, everOpened, everPastHalf>>

\* setupHandTracking itself rejects (no HandTracker class): init()'s catch
\* runs setupKeyboardControls
HandTrackerMissing ==
    /\ controls = "pending"
    /\ controls' = "keyboard"
    /\ last' = [op |-> "fallback", arg |-> "", from |-> ""]
    /\ UNCHANGED <<trackerVars, sceneVars, stateBeforeZoom, everOpened, everPastHalf>>

(***************************************************************************)
(* Camera frames: HandTracker.onResults -> updateGesture ->                *)
(* onGestureChange -> handleGestureChange.  The camera delivers frames     *)
(* once camera.start() has resolved; init() resolves in the same job and   *)
(* the continuation of setupHandTracking wires onGestureChange before the  *)
(* next task runs, so every frame finds the callback set.                  *)
(***************************************************************************)
updateGesture(gesture) ==
    LET history == pushHistory(gestureHistory, gesture)
        smoothed == smoothedGesture(history)
    IN  /\ Len(frameLog) < MaxFrames
        /\ gestureHistory' = history
        /\ frameLog' = Append(frameLog, gesture)
        /\ last' = [op |-> "frame", arg |-> gesture, from |-> currentState]
        /\ IF emits(smoothed, currentGesture)
           THEN /\ currentGesture' = smoothed
                /\ eventLog' = Append(eventLog, smoothed)
                /\ SetScene(handleGestureChange(Scene, smoothed, imageSprites))
                /\ everOpened' = (everOpened \/ smoothed = "open")
           ELSE UNCHANGED <<currentGesture, eventLog, currentState, previousState,
                            zoomedSprite, overlayHidden, selectedImageIndex,
                            stateBeforeZoom, everOpened>>
        /\ UNCHANGED <<controls, morphProgress, imageSprites, everPastHalf>>

\* onResults with a hand in the picture, the frame taken from frames
onResults(frames) ==
    /\ controls = "gesture"
    /\ \E frame \in frames :
          /\ handLandmarks' = <<frame>>
          /\ updateGesture(detectGesture(frame))

\* any landmark frame
OnResultsHand == onResults(LandmarkFrames)

\* one of the four poses: the smoother reads the label of a frame only
OnResultsPose == onResults(PoseFrames)

OnResultsNoHand ==
    /\ controls = "gesture"
    /\ handLandmarks' = <<>>
    /\ updateGesture("none")

(***************************************************************************)
(* The scene specification takes the smoother by its output: a gesture     *)
(* change event carries any label other than the one emitted before it     *)
(* (from a window full of one label, frames of another label emit exactly  *)
(* that label, so every such sequence of events occurs).  The history and  *)
(* the two logs belong to the tracker specification and rest here.         *)
(***************************************************************************)
GestureChange ==
    /\ controls = "gesture"
    /\ \E gesture \in GestureLabels :
          /\ emits(gesture, currentGesture)
          /\ currentGesture' = gesture
          /\ SetScene(handleGestureChange(Scene, gesture, imageSprites))
          /\ everOpened' = (everOpened \/ gesture = "open")
          /\ last' = [op |-> "gesture", arg |-> gesture, from |-> currentState]
    /\ UNCHANGED <<handLandmarks, gestureHistory, frameLog, eventLog, controls, morphProgress,
                   imageSprites, everPastHalf>>

KeyDown ==
    /\ controls = "keyboard"
    /\ \E key \in Keys :
          /\ SetScene(onKeyDown(Scene, key, imageSprites))
          /\ everOpened' = (everOpened \/ key = "o")
          /\ last' = [op |-> "keydown", arg |-> key, from |-> currentState]
    /\ UNCHANGED <<trackerVars, controls, morphProgress, imageSprites, everPastHalf>>

\* keyup of Z; the listener ignores every other key
KeyUp ==
    /\ controls = "keyboard"
    /\ SetScene(onKeyUp(Scene, "z"))
    /\ last' = [op |-> "keyup", arg |-> "z", from |-> currentState]
    /\ UNCHANGED <<trackerVars, controls, morphProgress, imageSprites, everOpened,
                   everPastHalf>>

\* the overlay and its close button can be clicked only while shown
CloseZoomClick ==
    /\ ~overlayHidden
    /\ SetScene(onCloseZoomClick(Scene))
    /\ last' = [op |-> "click", arg |-> "", from |-> currentState]
    /\ UNCHANGED <<trackerVars, controls, morphProgress, imageSprites, everOpened,
                   everPastHalf>>

\* textureLoader.load callback of SAMPLE_IMAGES[index]
ImageLoaded ==
    /\ Len(imageSprites) < MaxLoaded
    /\ Len(imageSprites) < imageCount
    /\ imageSprites' = Append(imageSprites, [opacity |-> 0, isSelected |-> FALSE])
    /\ last' = [op |-> "load", arg |-> "", from |-> ""]
    /\ UNCHANGED <<trackerVars, controls, currentState, previousState, morphProgress,
                   zoomedSprite, overlayHidden, selectedImageIndex, stateBeforeZoom,
                   everOpened, everPastHalf>>

\* animate(): morph step, then updateImageVisibility
Tick ==
    \E facing \in (IF imageSprites = <<>> THEN {0} ELSE DOMAIN imageSprites) :
        LET progress == advanceMorph(currentState, morphProgress)
            front == frontImageIndex(imageSprites, facing, currentState)
            selected == IF currentState = "exploded" THEN front ELSE selectedImageIndex
        IN  /\ morphProgress' = progress
            /\ selectedImageIndex' = selected
            /\ imageSprites' = updateSprites(imageSprites, selected, currentState, progress)
            /\ everPastHalf' = (everPastHalf \/ 2 * progress < MorphOne)
            /\ last' = [op |-> "tick", arg |-> "", from |-> ""]
            /\ UNCHANGED <<trackerVars, controls, currentState, previousState,
                           zoomedSprite, overlayHidden, stateBeforeZoom, everOpened>>

Next ==
    \/ HandTrackingReady
    \/ HandTrackingFailed
    \/ HandTrackerMissing
    \/ GestureChange
    \/ KeyDown
    \/ KeyUp
    \/ CloseZoomClick
    \/ ImageLoaded
    \/ Tick

Spec == Init /\ [][Next]_vars

\* animate() re-registers itself with requestAnimationFrame before it does
\* anything else, so the render loop never stops: ticks keep coming
SpecLive == Spec /\ WF_vars(Tick)

\* the smoother, fed one frame per label
NextTracker ==
    \/ HandTrackingReady
    \/ OnResultsPose
    \/ OnResultsNoHand

SpecTracker == Init /\ [][NextTracker]_vars

\* the classifier, fed every landmark frame
NextClassifier ==
    \/ HandTrackingReady
    \/ OnResultsHand
    \/ OnResultsNoHand

SpecClassifier == Init /\ [][NextClassifier]_vars

(***************************************************************************)
(* Claims about the morph engine, the smoother and the state machine.      *)
(***************************************************************************)
\* occurrences of label g in sequence h
Occurrences(h, g) == Cardinality({i \in DOMAIN h : h[i] = g})

\* the last n entries of sequence h
LastEntries(h, n) == SubSeq(h, Len(h) - n + 1, Len(h))

\* C1: in every reachable state, whatever the interleaving of gesture events,
\* key events, close-zoom clicks, texture loads and render ticks,
\* 0 <= morphProgress <= 1.
C1_MorphProgressInRange == morphProgress \in 0..MorphOne

\* C1 witness: a tick has clamped: 0 is not on the grid 1 - 0.06*k the morph
\* starts on, it is reached only through Math.max(0, ...).
C1_Witness ==
    /\ last.op = "tick"
    /\ currentState = "exploded"
    /\ morphProgress = 0

\* C2: a call of updateGesture passes a label to onGestureChange exactly when
\* the smoothed label of the new history differs from currentGesture, the
\* label passed is that smoothed label, and no two consecutive events (nor
\* the first event and the initial 'none') carry the same label.
C2_EmitsExactlyOnChange ==
    [][ frameLog' # frameLog =>
          LET smoothed == smoothedGesture(gestureHistory')
          IN  /\ (eventLog' # eventLog) <=> (smoothed # currentGesture)
              /\ eventLog' # eventLog => eventLog' = Append(eventLog, smoothed)
              /\ currentGesture' = smoothed
              /\ eventLog' # <<>> => eventLog'[1] # "none"
              /\ \A i \in 1..(Len(eventLog') - 1) : eventLog'[i] # eventLog'[i + 1]
      ]_vars

\* C2 witness: some calls have emitted and some have not.
C2_Witness ==
    /\ Len(eventLog) >= 2
    /\ Len(frameLog) >= Len(eventLog) + 2

\* the scenario of the specification
ScenarioFrames == <<"fist", "fist", "open", "fist", "fist">>

\* C3: after every updateGesture call a label holding more than half of the
\* history is currentGesture; the frames fist, fist, open, fist, fist from a
\* fresh tracker never emit 'open' and end with currentGesture = fist; three
\* identical frames in a row leave currentGesture at their label.
C3_MajorityWins ==
    /\ \A g \in GestureLabels :
          2 * Occurrences(gestureHistory, g) > Len(gestureHistory) => currentGesture = g
    /\ \A n \in 1..Len(ScenarioFrames) :
          frameLog = SubSeq(ScenarioFrames, 1, n) =>
             /\ "open" \notin Range(eventLog)
             /\ currentGesture = "fist"
    /\ \A g \in GestureLabels :
          (Len(frameLog) >= 3 /\ LastEntries(frameLog, 3) = <<g, g, g>>) => currentGesture = g

\* C3 witness: the scenario has run to its end.
C3_Witness ==
    /\ frameLog = ScenarioFrames
    /\ currentGesture = "fist"
    /\ eventLog = <<"fist">>

\* C4 (as claimed): when all frames so far carry one label x except exactly
\* one frame, which carries y, no event has carried y, wherever that frame
\* fell.
C4_AbsorbsSingleOutlier ==
    \A x, y \in GestureLabels :
        ( /\ x # y
          /\ Occurrences(frameLog, y) = 1
          /\ Occurrences(frameLog, x) = Len(frameLog) - 1
          /\ Len(frameLog) >= 2 )
        => y \notin Range(eventLog)

\* C5: after every updateGesture call currentGesture, and with it the label
\* of the latest event, is one of the labels in the gesture history.
C5_OutputInWindow ==
    /\ frameLog # <<>> => currentGesture \in Range(gestureHistory)
    /\ eventLog # <<>> => eventLog[Len(eventLog)] = currentGesture

\* C5 witness: a label seen earlier has left the window, and the output is
\* another label, one of the window.
C5_Witness ==
    /\ Len(frameLog) > historySize
    /\ frameLog[1] \notin Range(gestureHistory)
    /\ currentGesture \in Range(gestureHistory)
    /\ eventLog # <<>>

\* C6: the history holds at most 5 labels, and after n frames, with or
\* without a hand, exactly the last min(n, 5) labels in arrival order.
C6_HistoryIsLastFive ==
    /\ Len(gestureHistory) <= historySize
    /\ gestureHistory = LastEntries(frameLog, Min(Len(frameLog), historySize))

\* C6 witness: a sixth frame has evicted the oldest label; frames with and
\* without a hand have arrived.
C6_Witness ==
    /\ Len(frameLog) = historySize + 1
    /\ gestureHistory = Tail(frameLog)
    /\ frameLog[1] # frameLog[2]
    /\ "none" \in Range(frameLog)
    /\ "ok" \in Range(frameLog)

\* C7: after an 'open' event currentState and previousState are 'exploded';
\* when it arrived in state 'zoomed' the overlay is hidden and zoomedSprite
\* is null.
C7_OpenExplodes ==
    (last.op = "gesture" /\ last.arg = "open") =>
        /\ currentState = "exploded"
        /\ previousState = "exploded"
        /\ last.from = "zoomed" => (overlayHidden /\ zoomedSprite = NoSprite)

\* C7 witness: an 'open' event has arrived in state 'zoomed'.
C7_Witness ==
    /\ last.op = "gesture" /\ last.arg = "open" /\ last.from = "zoomed"
    /\ currentState = "exploded"

\* C8: a 'fist' event sets currentState to 'tree' with the overlay hidden
\* (zoomedSprite null when it arrived in state 'zoomed') and changes neither
\* previousState nor morphProgress.
C8_FistConverges ==
    [][ (last'.op = "gesture" /\ last'.arg = "fist") =>
          /\ currentState' = "tree"
          /\ overlayHidden'
          /\ currentState = "zoomed" => zoomedSprite' = NoSprite
          /\ previousState' = previousState
          /\ morphProgress' = morphProgress
      ]_vars

\* C8 witness: a 'fist' event has arrived in state 'zoomed' in mid-morph and
\* has left previousState = 'exploded'.
C8_Witness ==
    /\ last.op = "gesture" /\ last.arg = "fist" /\ last.from = "zoomed"
    /\ currentState = "tree"
    /\ previousState = "exploded"
    /\ morphProgress \in 1..(MorphOne - 1)

\* the front-facing slot: the isSelected sprite, else the one at
\* selectedImageIndex (0 when there is none)
FrontSlot ==
    IF \E i \in DOMAIN imageSprites : imageSprites[i].isSelected
    THEN CHOOSE i \in DOMAIN imageSprites : imageSprites[i].isSelected
    ELSE IF selectedImageIndex + 1 \in DOMAIN imageSprites THEN selectedImageIndex + 1
    ELSE 0

\* C9: an 'ok' event in state 'exploded' with the front-facing slot's opacity
\* above 0.3 zooms: state 'zoomed', previousState 'exploded', zoomedSprite
\* that slot, overlay shown; and a tick in state 'zoomed' leaves
\* morphProgress as it is.
C9_OkZoomsAndFreezes ==
    [][ /\ ( /\ last'.op = "gesture" /\ last'.arg = "ok"
             /\ currentState = "exploded"
             /\ FrontSlot # 0
             /\ imageSprites[FrontSlot].opacity > ZoomOpacity )
           => /\ currentState' = "zoomed"
              /\ previousState' = "exploded"
              /\ zoomedSprite' = FrontSlot - 1
              /\ ~overlayHidden'
        /\ (last'.op = "tick" /\ currentState = "zoomed")
           => morphProgress' = morphProgress
      ]_vars

\* C9 witness: the scenario: zoomed by 'ok' from 'exploded' at morphProgress
\* 0, the front slot at opacity 0.8 or more, and a tick has run since.
C9_Witness ==
    /\ last.op = "tick"
    /\ controls = "gesture" /\ currentGesture = "ok"
    /\ currentState = "zoomed" /\ previousState = "exploded"
    /\ morphProgress = 0
    /\ zoomedSprite # NoSprite
    /\ imageSprites[zoomedSprite + 1].opacity >= 8

\* C10: a 'none' event in state 'zoomed' hides the overlay and restores the
\* state held just before the zoom, which is previousState; in state 'tree'
\* or 'exploded' it changes neither currentState nor previousState.
C10_NoneRestores ==
    [][ (last'.op = "gesture" /\ last'.arg = "none") =>
          IF currentState = "zoomed"
          THEN /\ overlayHidden'
               /\ currentState' = stateBeforeZoom
               /\ currentState' = previousState
          ELSE /\ currentState' = currentState
               /\ previousState' = previousState
      ]_vars

\* C10 witness: a 'none' event has ended a zoom entered from state 'tree'.
C10_Witness ==
    /\ last.op = "gesture" /\ last.arg = "none" /\ last.from = "zoomed"
    /\ currentState = "tree"
    /\ overlayHidden

(***************************************************************************)
(* C11.  An 'ok' event or a Z keydown handled while currentState and       *)
(* previousState are both 'tree' changes no variable of the scene, and no  *)
(* step enters the zoomed state before an 'open' event or an O keydown     *)
(* has been handled.                                                       *)
(***************************************************************************)
ZoomRequested ==
    \/ last'.op = "gesture" /\ last'.arg = "ok"
    \/ last'.op = "keydown" /\ last'.arg = "z"

C11_ZoomNeedsExploded ==
    [][ /\ (ZoomRequested /\ currentState = "tree" /\ previousState = "tree")
            => UNCHANGED sceneVars
        /\ currentState' = "zoomed" => everOpened' ]_vars

\* a zoom request was turned down in tree/tree although the target is visible
C11_Witness ==
    /\ last.op \in {"gesture", "keydown"}
    /\ last.arg \in {"ok", "z"}
    /\ last.from = "tree"
    /\ currentState = "tree"
    /\ previousState = "tree"
    /\ everOpened
    /\ \E i \in DOMAIN imageSprites : imageSprites[i].opacity > ZoomOpacity

\* the slot a Z keydown asks to zoom: the one at selectedImageIndex (0 when
\* there is none)
SelectedSlot ==
    IF selectedImageIndex + 1 \in DOMAIN imageSprites THEN selectedImageIndex + 1
    ELSE 0

NotVisibleEnough(slot) ==
    slot = 0 \/ imageSprites[slot].opacity <= ZoomOpacity

OkInvisibleTargetIgnored ==
    [][ ( /\ last'.op = "gesture" /\ last'.arg = "ok"
          /\ NotVisibleEnough(FrontSlot) )
        => UNCHANGED <<currentState, previousState, zoomedSprite, overlayHidden>>
      ]_vars

\* the Z half of C12 below the threshold
KeyInvisibleTargetIgnored ==
    [][ ( /\ last'.op = "keydown" /\ last'.arg = "z"
          /\ (SelectedSlot = 0 \/ imageSprites[SelectedSlot].opacity < ZoomOpacity) )
        => UNCHANGED <<currentState, previousState, zoomedSprite, overlayHidden>>
      ]_vars

(***************************************************************************)
(* C13.  When HandTracker.init rejects (the camera fails to start or a     *)
(* constructor of the detector library throws), the keyboard controls are  *)
(* wired: once the rejection has been handled, setupKeyboardControls has   *)
(* run.  The handling of the rejection runs to the point where every       *)
(* promise of init() is settled, so nothing of it is still to come.        *)
(***************************************************************************)
C13_FallsBackToKeyboard ==
    last.op = "failed" => controls = "keyboard"

\* after a rejected HandTracker.init no later step wires a control surface
RejectionLeavesNoControls ==
    [][ controls = "none" => controls' = "none" ]_vars

(***************************************************************************)
(* C14.  selectedImageIndex stays within 0 .. imageCount - 1 from the      *)
(* start and through every step (ticks, arrow keys, gesture events, image  *)
(* loads); select-previous at index 0 leaves it at 0 and select-next at    *)
(* the last index leaves it at the last index.                             *)
(***************************************************************************)
C14_SelectionInRange ==
    /\ selectedImageIndex \in 0..(imageCount - 1)
    /\ [][ /\ selectedImageIndex' \in 0..(imageCount - 1)
           /\ ( /\ last'.op = "keydown" /\ last'.arg = "arrowleft"
                /\ selectedImageIndex = 0 )
              => selectedImageIndex' = 0
           /\ ( /\ last'.op = "keydown" /\ last'.arg = "arrowright"
                /\ selectedImageIndex = imageCount - 1 )
              => selectedImageIndex' = imageCount - 1 ]_vars

\* select-next has brought the selection to the last index
C14_Witness ==
    /\ last.op = "keydown" /\ last.arg = "arrowright" /\ last.from = "exploded"
    /\ selectedImageIndex = imageCount - 1

C16_SelectionKeptWithoutFront ==
    [][ ( /\ last'.op = "tick"
          /\ (Len(imageSprites) = 0 \/ currentState # "exploded") )
        => selectedImageIndex' = selectedImageIndex ]_vars

\* the half of C16 for ticks outside the state 'exploded'
SelectionKeptOutsideExploded ==
    [][ (last'.op = "tick" /\ currentState # "exploded")
        => selectedImageIndex' = selectedImageIndex ]_vars

(***************************************************************************)
(* The classifier claims read the frame of the last result and the label   *)
(* detectGesture gave it (the argument of updateGesture), with the claim's *)
(* conditions taken from the coordinates of the frame.                     *)
(***************************************************************************)
FrameClassified == last.op = "frame" /\ Len(handLandmarks) = 1

\* thumb-tip/index-tip distance below 0.08
TipsCloserThanThreshold(lm) ==
    (lm[4].x - lm[8].x) * (lm[4].x - lm[8].x)
        + (lm[4].y - lm[8].y) * (lm[4].y - lm[8].y) < 8 * 8

ThumbExtended(lm) == lm[4].x < lm[3].x
IndexExtended(lm) == lm[8].y < lm[6].y
MiddleRingPinkyExtended(lm) ==
    lm[12].y < lm[10].y /\ lm[16].y < lm[14].y /\ lm[20].y < lm[18].y

OkCondition(lm) == TipsCloserThanThreshold(lm) /\ MiddleRingPinkyExtended(lm)

FingersUp(lm) ==
    Cardinality({pair \in {<<4, 3>>, <<8, 6>>, <<12, 10>>, <<16, 14>>, <<20, 18>>} :
                    IF pair[1] = 4 THEN lm[4].x < lm[3].x
                    ELSE lm[pair[1]].y < lm[pair[2]].y})

\* the frames offer every combination of the five extended flags and the
\* touching flag
FramesCoverAllFlags ==
    \A flags \in [1..5 -> BOOLEAN], touching \in BOOLEAN :
        \E lm \in LandmarkFrames :
            /\ getFingersExtended(lm) = [i \in 1..5 |-> flags[i]]
            /\ TipsCloserThanThreshold(lm) = touching

(***************************************************************************)
(* C17.  A frame whose thumb tip and index tip are less than 0.08 apart    *)
(* and whose middle, ring and pinky fingers are extended is classified     *)
(* 'ok', whatever the thumb and index extended flags are.                  *)
(***************************************************************************)
C17_OkTakesPrecedence ==
    (FrameClassified /\ OkCondition(handLandmarks[1])) => last.arg = "ok"

\* an OK frame with all five fingers extended, which the count alone would
\* make 'open', was classified 'ok'
C17_Witness ==
    /\ FrameClassified
    /\ OkCondition(handLandmarks[1])
    /\ ThumbExtended(handLandmarks[1]) /\ IndexExtended(handLandmarks[1])
    /\ last.arg = "ok"

(***************************************************************************)
(* C18.  A frame that does not satisfy the OK condition is classified      *)
(* 'fist' iff at most one finger is extended, 'open' iff at least four     *)
(* are, and 'none' iff two or three are; every frame gets one of the four  *)
(* labels, over all combinations of the five extended flags and the        *)
(* touching flag.                                                          *)
(***************************************************************************)
C18_CountDecidesLabel ==
    /\ FramesCoverAllFlags
    /\ FrameClassified =>
          /\ last.arg \in GestureLabels
          /\ ~OkCondition(handLandmarks[1]) =>
                /\ last.arg = "fist" <=> FingersUp(handLandmarks[1]) <= 1
                /\ last.arg = "open" <=> FingersUp(handLandmarks[1]) >= 4
                /\ last.arg = "none" <=> FingersUp(handLandmarks[1]) \in {2, 3}

\* thumb and index tips touch, but with three fingers up and the pinky
\* folded the frame is not OK and was classified 'none'
C18_Witness ==
    /\ FrameClassified
    /\ TipsCloserThanThreshold(handLandmarks[1])
    /\ ~MiddleRingPinkyExtended(handLandmarks[1])
    /\ FingersUp(handLandmarks[1]) = 3
    /\ last.arg = "none"

(***************************************************************************)
(* C19.  A tick in state 'exploded' strictly decreases morphProgress while *)
(* it is above 0 and holds it at 0; a tick in state 'tree' strictly        *)
(* increases it while it is below 1 and holds it at 1; a tick in state     *)
(* 'zoomed' leaves it unchanged.  With the render loop running, a run that *)
(* stays 'exploded' reaches morphProgress = 0 and keeps it, and a run that *)
(* stays 'tree' reaches 1 and keeps it.                                    *)
(***************************************************************************)
C19_MorphRunsToItsEnd ==
    /\ [][ last'.op = "tick" =>
             CASE currentState = "exploded" ->
                    IF morphProgress > 0 THEN morphProgress' < morphProgress
                    ELSE morphProgress' = 0
               [] currentState = "tree" ->
                    IF morphProgress < MorphOne THEN morphProgress' > morphProgress
                    ELSE morphProgress' = MorphOne
               [] OTHER -> morphProgress' = morphProgress ]_vars
    /\ <>[](currentState = "exploded") => <>[](morphProgress = 0)
    /\ <>[](currentState = "tree") => <>[](morphProgress = MorphOne)

\* a tick in state 'exploded' has brought morphProgress down to 0
C19_Witness ==
    /\ last.op = "tick"
    /\ currentState = "exploded"
    /\ morphProgress = 0

(***************************************************************************)
(* C20.  No step other than a render tick changes morphProgress (gesture   *)
(* events, key events, the close-zoom click, image loads), and a tick      *)
(* moves it by transitionSpeed at most, towards 1 in state 'tree' and      *)
(* towards 0 in state 'exploded': after the state is reversed in the       *)
(* middle of a transition the morph goes on from where it was.             *)
(***************************************************************************)
C20_MorphNeverSnaps ==
    [][ IF last'.op = "tick"
        THEN /\ morphProgress' - morphProgress <= transitionSpeed
             /\ morphProgress - morphProgress' <= transitionSpeed
             /\ currentState = "tree" => morphProgress' >= morphProgress
             /\ currentState = "exploded" => morphProgress' <= morphProgress
        ELSE morphProgress' = morphProgress ]_vars

\* reversed in mid-transition: two ticks down from 1, a 'fist' event or F
\* keydown, and the tick after it has gone one step back up
C20_Witness ==
    /\ last.op = "tick"
    /\ currentState = "tree"
    /\ morphProgress = MorphOne - transitionSpeed

\* two handler results agree on the state, the saved state, the zoomed
\* sprite and the overlay
SameDisplay(a, b) ==
    /\ a.currentState = b.currentState
    /\ a.previousState = b.previousState
    /\ a.zoomedSprite = b.zoomedSprite
    /\ a.overlayHidden = b.overlayHidden

(***************************************************************************)
(* C21.  In every reachable state each key gives the display the other     *)
(* control surface's gesture would give it: F keydown as 'fist', O keydown *)
(* as 'open', Z keydown as 'ok' and Z keyup as 'none' (currentState,       *)
(* previousState, zoomedSprite and overlay visibility of the result).      *)
(***************************************************************************)
C21_KeysMatchGestures ==
    /\ SameDisplay(onKeyDown(Scene, "f", imageSprites),
                   handleGestureChange(Scene, "fist", imageSprites))
    /\ SameDisplay(onKeyDown(Scene, "o", imageSprites),
                   handleGestureChange(Scene, "open", imageSprites))
    /\ SameDisplay(onKeyDown(Scene, "z", imageSprites),
                   handleGestureChange(Scene, "ok", imageSprites))
    /\ SameDisplay(onKeyUp(Scene, "z"),
                   handleGestureChange(Scene, "none", imageSprites))

\* C21 without the zoom pair: F, O and Z keyup against 'fist', 'open', 'none'
KeysMatchGesturesButZoom ==
    /\ SameDisplay(onKeyDown(Scene, "f", imageSprites),
                   handleGestureChange(Scene, "fist", imageSprites))
    /\ SameDisplay(onKeyDown(Scene, "o", imageSprites),
                   handleGestureChange(Scene, "open", imageSprites))
    /\ SameDisplay(onKeyUp(Scene, "z"),
                   handleGestureChange(Scene, "none", imageSprites))

\* the zoom pair where both functions aim at the same sprite and its opacity
\* is not the threshold value itself
ZoomKeyMatchesOkOffBoundary ==
    (FrontSlot = SelectedSlot
        /\ (FrontSlot # 0 => imageSprites[FrontSlot].opacity # ZoomOpacity))
    => SameDisplay(onKeyDown(Scene, "z", imageSprites),
                   handleGestureChange(Scene, "ok", imageSprites))

\* the most recent value of currentState other than 'zoomed'
LastNonZoomedState ==
    IF currentState # "zoomed" THEN currentState ELSE stateBeforeZoom

(***************************************************************************)
(* C22.  In every reachable state previousState equals the most recent     *)
(* non-zoomed value of currentState: currentState itself in the states     *)
(* 'tree' and 'exploded', the value held just before zooming in the state  *)
(* 'zoomed'.                                                               *)
(***************************************************************************)
C22_PreviousIsLastNonZoomed ==
    previousState = LastNonZoomedState

(***************************************************************************)
(* C22 as amended.  While currentState is 'zoomed', previousState equals   *)
(* the value currentState held just before the zoom, 'tree' or 'exploded'. *)
(* Outside 'zoomed' it need not equal currentState.                        *)
(***************************************************************************)
C22_PreviousIsStateBeforeZoom ==
    currentState = "zoomed" =>
        /\ previousState = stateBeforeZoom
        /\ previousState \in {"tree", "exploded"}

\* zoomed from the state 'tree', which 'fist' had entered after an 'open'
C22_Witness ==
    /\ currentState = "zoomed"
    /\ stateBeforeZoom = "tree"
    /\ previousState = "tree"
    /\ everOpened

\* the labels with the highest count in history h
TopLabels(h) ==
    {g \in Range(h) : \A k \in Range(h) : Occurrences(h, k) <= Occurrences(h, g)}

\* position of the first (oldest) occurrence of g in h
FirstOccurrence(h, g) ==
    CHOOSE i \in DOMAIN h : h[i] = g /\ \A j \in 1..(i - 1) : h[j] # g

(***************************************************************************)
(* C23.  After every call of updateGesture the smoothed label, which       *)
(* currentGesture then holds, is the label of highest count whose first    *)
(* occurrence in the history is the earliest among the labels tied for     *)
(* that count; it is a function of the history alone.                      *)
(***************************************************************************)
C23_EarliestTiedLabelWins ==
    gestureHistory # <<>> =>
        /\ currentGesture \in TopLabels(gestureHistory)
        /\ \A k \in TopLabels(gestureHistory) :
              FirstOccurrence(gestureHistory, currentGesture)
                  <= FirstOccurrence(gestureHistory, k)

\* a full window with two labels tied, the newest frame carrying the tied
\* label that lost
C23_Witness ==
    /\ Len(gestureHistory) = historySize
    /\ Cardinality(TopLabels(gestureHistory)) = 2
    /\ gestureHistory[historySize] \in TopLabels(gestureHistory)
    /\ gestureHistory[historySize] # currentGesture
    /\ gestureHistory[1] # currentGesture

(***************************************************************************)
(* C24.  Until the first tick that leaves explodeProgress                  *)
(* (1 - morphProgress) above 0.5, every loaded sprite has opacity 0; and   *)
(* the state 'zoomed' is not entered before morphProgress has been below   *)
(* 0.5 after some tick.                                                    *)
(***************************************************************************)
C24_InvisibleBeforeHalfway ==
    /\ ~everPastHalf =>
          \A i \in DOMAIN imageSprites : imageSprites[i].opacity = 0
    /\ currentState = "zoomed" => everPastHalf

\* the first tick past the halfway point has made a sprite faintly visible
C24_Witness ==
    /\ last.op = "tick"
    /\ currentState = "exploded"
    /\ MorphOne - morphProgress > HalfExploded
    /\ MorphOne - (morphProgress + transitionSpeed) <= HalfExploded
    /\ \E i \in DOMAIN imageSprites : imageSprites[i].opacity = 1

(***************************************************************************)
(* C25.  In every reachable state previousState is 'tree' or 'exploded',   *)
(* never 'zoomed'; and the state a 'none' event or a Z keyup leaves behind *)
(* is not 'zoomed', so either of them received in state 'zoomed' leaves    *)
(* that state.                                                             *)
(***************************************************************************)
C25_PreviousNeverZoomed ==
    /\ previousState \in {"tree", "exploded"}
    /\ ( \/ last.op = "gesture" /\ last.arg = "none"
         \/ last.op = "keyup" )
       => currentState # "zoomed"

\* a Z keyup received in state 'zoomed' has restored the state 'tree'
C25_Witness ==
    /\ last.op = "keyup"
    /\ last.from = "zoomed"
    /\ currentState = "tree"
    /\ previousState = "tree"

(***************************************************************************)
(* C26.  Between handlers the zoom overlay is shown exactly when           *)
(* currentState is 'zoomed': no handler leaves the state 'zoomed' with the *)
(* overlay hidden, or the overlay shown in another state.                  *)
(***************************************************************************)
C26_OverlayShownIffZoomed ==
    ~overlayHidden <=> currentState = "zoomed"

\* the overlay was closed by a click and the state has left 'zoomed' with it
C26_Witness ==
    /\ last.op = "click"
    /\ last.from = "zoomed"
    /\ overlayHidden
    /\ currentState # "zoomed"

(***************************************************************************)
(* C27.  In every reachable state zoomedSprite is set exactly when         *)
(* currentState is 'zoomed': every way out of the state 'zoomed' (fist,    *)
(* open, none, Z keyup, a click on the close button or on the overlay      *)
(* background) resets zoomedSprite to null.                                *)
(***************************************************************************)
C27_ZoomedSpriteIffZoomed ==
    zoomedSprite # NoSprite <=> currentState = "zoomed"

\* the half of C27 that the click handlers do not touch
ZoomedStateHasSprite ==
    currentState = "zoomed" => zoomedSprite # NoSprite

\* C27 for every way out of 'zoomed' but the click
UnzoomClearsSprite ==
    [][ (currentState = "zoomed" /\ currentState' # "zoomed" /\ last'.op # "click")
        => zoomedSprite' = NoSprite ]_vars

(***************************************************************************)
(* C28.  Whenever updateGesture passes a label to onGestureChange, that    *)
(* label is the label of the frame the call was made for: dropping the     *)
(* oldest entry of the history never by itself brings another label to be  *)
(* emitted.                                                                *)
(***************************************************************************)
C28_EmitsLabelOfNewFrame ==
    [][ eventLog' # eventLog =>
          eventLog'[Len(eventLog')] = frameLog'[Len(frameLog')] ]_vars

(***************************************************************************)
(* C28 as amended.  A label emitted by a call that dropped no entry of the *)
(* history (the history was not yet full) is the label of the new frame.   *)
(* A call that drops the oldest entry can emit an older label of the       *)
(* window instead, and then the entry dropped carried the label emitted    *)
(* before.                                                                 *)
(***************************************************************************)
C28_StaleLabelNeedsEviction ==
    [][ ( /\ eventLog' # eventLog
          /\ eventLog'[Len(eventLog')] # frameLog'[Len(frameLog')] )
        => /\ Len(frameLog') > historySize
           /\ gestureHistory[1] = currentGesture
           /\ eventLog'[Len(eventLog')] \in Range(gestureHistory) ]_vars

\* 'ok' is dropped from the window by a 'none' frame and 'fist' is emitted
C28_Witness ==
    /\ frameLog = <<"ok", "ok", "fist", "fist", "open", "none">>
    /\ eventLog = <<"ok", "fist">>
    /\ currentGesture = "fist"

(***************************************************************************)
(* C29.  A click on the close button or on the overlay background          *)
(* received in state 'zoomed' hides the overlay and sets currentState to   *)
(* 'exploded' whatever previousState is, and changes neither previousState *)
(* nor morphProgress: a zoom entered from state 'tree' ends in 'exploded'  *)
(* when closed by a click.                                                 *)
(***************************************************************************)
C29_ClickEndsInExploded ==
    [][ (last'.op = "click" /\ currentState = "zoomed")
        => /\ overlayHidden'
           /\ currentState' = "exploded"
           /\ previousState' = previousState
           /\ morphProgress' = morphProgress ]_vars

\* a zoom entered from state 'tree' was closed by a click
C29_Witness ==
    /\ last.op = "click"
    /\ last.from = "zoomed"
    /\ previousState = "tree"
    /\ currentState = "exploded"
    /\ overlayHidden

====
